---------------------------- MODULE Spec2Model ----------------------------
(***************************************************************************)
(* Model of the NeuroDetect metal detector component                       *)
(* (src/src/components/MetalDetector.tsx): the sliding window of samples,  *)
(* feature extraction, the threshold classifier, and the three acquisition *)
(* sources (magnetometer sensor, deviceorientation listener, simulation    *)
(* interval) with the start / stop / fallback logic that drives them.      *)
(*                                                                         *)
(* Numbers.  The component computes in IEEE doubles.  The model computes   *)
(* in fixed point: magnitudes and features are integers counting tenths    *)
(* (Fix(45) = 450 stands for 45.0), confidences are integers counting      *)
(* thousandths (940 stands for 0.94), and the trigonometric table counts   *)
(* ten-thousandths.  Divisions and square roots round down.                *)
(***************************************************************************)
EXTENDS Integers, Sequences, FiniteSets, TLC

VARIABLES
    \* React state of MetalDetector (15-29)
    isScanning, simulationMode, sensorType, dataBuffer, simSettings,
    currentPrediction, errorMsg,
    \* refs (31-33)
    sensorRef, intervalRef, lastAlphaRef,
    \* the browser: which sensor APIs the device offers
    platform,
    \* the acquisition attempts made so far, one per START that went on to
    \* acquire: what each one holds (a pending call, a started sensor, a
    \* registered listener, a timer, an interval) and the render whose
    \* closures it captured
    attempts,
    \* the render generation whose closures the mounted component now uses
    gen,
    \* the classification effect scheduled by the last change of dataBuffer
    effectPending,
    \* history: every reading passed to handleNewReading, in order, and the
    \* source that delivered the last one
    pushed, lastSource,
    \* the feature vector under test and the classifier's answer
    \* (used by SpecClassify and SpecExtract only)
    fv, verdict,
    \* what a call of extractFeatures under test did besides returning
    \* features (used by SpecExtract only)
    extraction,
    \* React state of App (AnalysisDashboard.tsx 116-118)
    showAI, lastPrediction, sensorReadings,
    \* React state of AIAssistant (MetalDetector.tsx 754-756)
    analysis, tips, loading,
    \* aiClient of the service module is not null (types.ts 49-53)
    hasClient,
    \* the runs of fetchData so far (MetalDetector.tsx 759-768), in order
    requests

vars == <<isScanning, simulationMode, sensorType, dataBuffer, simSettings,
          currentPrediction, errorMsg, sensorRef, intervalRef, lastAlphaRef,
          platform, attempts, gen, effectPending, pushed, lastSource,
          fv, verdict, extraction, showAI, lastPrediction, sensorReadings, analysis,
          tips, loading, hasClient, requests>>

\* App, AIAssistant and the service module.
assistantVars == <<showAI, lastPrediction, sensorReadings, analysis, tips, loading,
                   hasClient, requests>>

(***************************************************************************)
(* Program constants.                                                      *)
(***************************************************************************)
WINDOW_SIZE == 50
DEFAULT_SIM_BASE == 45
DEFAULT_SIM_NOISE == 2

(***************************************************************************)
(* Bounds of the model.                                                    *)
(***************************************************************************)
\* START presses that go on to acquire (each makes one attempt).
MaxStarts == 2
\* Readings delivered to handleNewReading in a run with one attempt.
MaxPushes == 51
\* Readings delivered in a run once START was pressed a second time.
MaxPushesRestarted == 2
\* Readings arrive in bursts: a source that starts delivering delivers until
\* the number of readings is a multiple of Grain, and clicks, permission
\* results, sensor errors and timers fall between bursts.
Grain == 5
\* Presses of AI ANALYZE in a run.
MaxAnalyses == 2
\* Longest list of readings handed to the service on its own.
MaxReadings == 22

(***************************************************************************)
(* Fixed-point helpers.                                                    *)
(***************************************************************************)
\* The real number x (an integer here) in tenths.
Fix(x) == x * 10

Abs(x) == IF x < 0 THEN 0 - x ELSE x

Min(a, b) == IF a < b THEN a ELSE b

Max(a, b) == IF a > b THEN a ELSE b

\* Math.sqrt on a non-negative integer, rounded down (bisection on [lo, hi)).
RECURSIVE SqrtIn(_, _, _)
SqrtIn(x, lo, hi) ==
    IF hi - lo <= 1 THEN lo
    ELSE LET mid == (lo + hi) \div 2
         IN  IF mid * mid <= x THEN SqrtIn(x, mid, hi) ELSE SqrtIn(x, lo, mid)

Sqrt(x) == SqrtIn(x, 0, 46341)

\* Math.cos(2*PI*j/50) and Math.sin(2*PI*j/50) in ten-thousandths, j in 0..49.
CosTable ==
    <<  10000,   9921,   9686,   9298,   8763,   8090,   7290,   6374,   5358,   4258,
         3090,   1874,    628,   -628,  -1874,  -3090,  -4258,  -5358,  -6374,  -7290,
        -8090,  -8763,  -9298,  -9686,  -9921, -10000,  -9921,  -9686,  -9298,  -8763,
        -8090,  -7290,  -6374,  -5358,  -4258,  -3090,  -1874,   -628,    628,   1874,
         3090,   4258,   5358,   6374,   7290,   8090,   8763,   9298,   9686,   9921 >>

SinTable ==
    <<      0,   1253,   2487,   3681,   4818,   5878,   6845,   7705,   8443,   9048,
         9511,   9823,   9980,   9980,   9823,   9511,   9048,   8443,   7705,   6845,
         5878,   4818,   3681,   2487,   1253,      0,  -1253,  -2487,  -3681,  -4818,
        -5878,  -6845,  -7705,  -8443,  -9048,  -9511,  -9823,  -9980,  -9980,  -9823,
        -9511,  -9048,  -8443,  -7705,  -6845,  -5878,  -4818,  -3681,  -2487,  -1253 >>

\* theta = -2*PI*k*n/N as a number of fiftieths of a turn (exact when N
\* divides 50, in particular for the full window N = WINDOW_SIZE).
Turn(k, n, N) == ((k * n * 50) \div N) % 50

\* Math.cos(theta) and Math.sin(theta) for theta = -2*PI*k*n/N.
Cos(k, n, N) == CosTable[Turn(k, n, N) + 1]

Sin(k, n, N) == 0 - SinTable[Turn(k, n, N) + 1]

(***************************************************************************)
(* extractFeatures (MetalDetector.tsx 75-101).                             *)
(***************************************************************************)
\* The sum of s[lo..hi]. The terms are whole numbers, so the sum is the same
\* in every order; it is taken by halves.
RECURSIVE SumOver(_, _, _)
SumOver(s, lo, hi) ==
    IF lo > hi THEN 0
    ELSE IF lo = hi THEN s[lo]
    ELSE SumOver(s, lo, (lo + hi) \div 2) + SumOver(s, (lo + hi) \div 2 + 1, hi)

\* array.reduce((a, b) => a + b, 0) over s[1..n]
SumTo(s, n) == SumOver(s, 1, n)

\* The greatest of s[lo..hi], lo <= hi, taken by halves.
RECURSIVE MaxOver(_, _, _)
MaxOver(s, lo, hi) ==
    IF lo = hi THEN s[lo]
    ELSE Max(MaxOver(s, lo, (lo + hi) \div 2), MaxOver(s, (lo + hi) \div 2 + 1, hi))

\* Math.max(...s) over s[1..n], n >= 1
MaxTo(s, n) == MaxOver(s, 1, n)

\* The terms centered[n] * trig(theta) of the inner loop (88-93) for the
\* positions lo-1..hi-1 of the window (the sequence is 1-based), summed by
\* halves.
RECURSIVE DftOver(_, _, _, _, _, _)
DftOver(centered, k, N, lo, hi, useCos) ==
    IF lo > hi THEN 0
    ELSE IF lo = hi
         THEN centered[lo] * (IF useCos THEN Cos(k, lo - 1, N) ELSE Sin(k, lo - 1, N))
    ELSE DftOver(centered, k, N, lo, (lo + hi) \div 2, useCos)
         + DftOver(centered, k, N, (lo + hi) \div 2 + 1, hi, useCos)

\* The inner loop over n (88-93): the sum of centered[n] * trig(theta), for
\* the positions 0..n-1 of the window.
Dft(centered, k, N, n, useCos) == DftOver(centered, k, N, 1, n, useCos)

\* One pass of the outer loop (86-95): Math.sqrt(real * real + imag * imag).
FftMagnitude(centered, k, N) ==
    LET real == Dft(centered, k, N, N, TRUE) \div 10000
        imag == Dft(centered, k, N, N, FALSE) \div 10000
    IN  Sqrt(real * real + imag * imag)

\* A faulty variant of Spectrum: k <= Math.floor(N / 2), the bin at half the
\* sampling rate included.
SpectrumWithNyquist(centered, N) ==
    LET bins == N \div 2 + 1
    IN  SubSeq([k \in 1..bins |-> FftMagnitude(centered, k - 1, N)], 1, bins)

\* The spectrum (84-95): one magnitude per bin k = 0 .. floor(N/2) - 1.
Spectrum(centered, N) ==
    LET bins == N \div 2
    IN  SubSeq([k \in 1..bins |-> FftMagnitude(centered, k - 1, N)], 1, bins)

\* A faulty variant of FeaturesOf: the spectrum taken of the magnitudes, not
\* of the mean-centred series (line 83 left out).
FeaturesOfNotCentred(magnitudes, N, mean) ==
    LET sq == [i \in 1..N |-> (magnitudes[i] - mean) * (magnitudes[i] - mean)]
        fftMagnitudes == Spectrum(magnitudes, N)
        bins == Len(fftMagnitudes)
    IN  [mean |-> mean,
         std |-> Sqrt(SumTo(sq, N) \div N),
         max |-> MaxTo(magnitudes, N),
         fftMean |-> IF bins > 0 THEN SumTo(fftMagnitudes, bins) \div bins ELSE 0,
         fftMax |-> IF bins > 0 THEN MaxTo(fftMagnitudes, bins) ELSE 0]

\* A faulty variant of FeaturesOf: the division of line 97 left out, fftMean
\* the sum of the spectrum.
FeaturesOfNoAverage(magnitudes, N, mean) ==
    LET sq == [i \in 1..N |-> (magnitudes[i] - mean) * (magnitudes[i] - mean)]
        centered == SubSeq([i \in 1..N |-> magnitudes[i] - mean], 1, N)
        fftMagnitudes == Spectrum(centered, N)
        bins == Len(fftMagnitudes)
    IN  [mean |-> mean,
         std |-> Sqrt(SumTo(sq, N) \div N),
         max |-> MaxTo(magnitudes, N),
         fftMean |-> IF bins > 0 THEN SumTo(fftMagnitudes, bins) ELSE 0,
         fftMax |-> IF bins > 0 THEN MaxTo(fftMagnitudes, bins) ELSE 0]

\* Lines 79-100, given the magnitudes and their mean.
FeaturesOf(magnitudes, N, mean) ==
    LET sq == [i \in 1..N |-> (magnitudes[i] - mean) * (magnitudes[i] - mean)]
        centered == SubSeq([i \in 1..N |-> magnitudes[i] - mean], 1, N)
        fftMagnitudes == Spectrum(centered, N)
        bins == Len(fftMagnitudes)
    IN  [mean |-> mean,
         std |-> Sqrt(SumTo(sq, N) \div N),
         max |-> MaxTo(magnitudes, N),
         fftMean |-> IF bins > 0 THEN SumTo(fftMagnitudes, bins) \div bins ELSE 0,
         fftMax |-> IF bins > 0 THEN MaxTo(fftMagnitudes, bins) ELSE 0]

extractFeatures(buffer) ==
    LET magnitudes == SubSeq([i \in 1..Len(buffer) |-> buffer[i].total], 1, Len(buffer))
        N == Len(magnitudes)
    IN  FeaturesOf(magnitudes, N, SumTo(magnitudes, N) \div N)

(***************************************************************************)
(* Lines 79-83 and the first pass of the loop of 86-95 in the arithmetic   *)
(* of the component, IEEE 754 doubles, for a window whose samples are all  *)
(* alike.  A double is a significand of at most 53 bits and an exponent;   *)
(* sums and quotients are rounded to the nearest double, ties to even.     *)
(* Natural numbers below 2^60 are written as three limbs of 20 bits,       *)
(* <<high, middle, low>>.                                                  *)
(***************************************************************************)
\* Bits of the significand of a double.
Precision == 53

Base == 2^20

Zero == <<0, 0, 0>>

\* The limbs brought back below Base.
Carry(x) ==
    LET mid == x[2] + x[3] \div Base
    IN  <<x[1] + mid \div Base, mid % Base, x[3] % Base>>

BigAdd(x, y) == Carry(<<x[1] + y[1], x[2] + y[2], x[3] + y[3]>>)

\* n * 2^k, for n * 2^(k % 20) below 2^31 and the product below 2^60.
BigShift(n, k) ==
    LET low == Carry(<<0, 0, n * 2^(k % 20)>>)
    IN  CASE k \div 20 = 0 -> low
          [] k \div 20 = 1 -> <<low[2], low[3], 0>>
          [] k \div 20 = 2 -> <<low[3], 0, 0>>

\* x - y for x and y less than Base apart.
BigDiff(x, y) == ((x[1] - y[1]) * Base + (x[2] - y[2])) * Base + (x[3] - y[3])

\* The number of bits of n, and of x.
RECURSIVE Bits(_)
Bits(n) == IF n = 0 THEN 0 ELSE 1 + Bits(n \div 2)

BitLength(x) ==
    IF x[1] > 0 THEN 40 + Bits(x[1])
    ELSE IF x[2] > 0 THEN 20 + Bits(x[2])
    ELSE Bits(x[3])

\* x rounded to the nearest multiple of 2^q, ties to the even one (q < 20).
RoundTo(x, q) ==
    LET unit == 2^q
        r == x[3] % unit
        low == x[3] - r
        up == 2 * r > unit \/ (2 * r = unit /\ (low \div unit) % 2 = 1)
    IN  Carry(<<x[1], x[2], low + (IF up THEN unit ELSE 0)>>)

\* x rounded to a number of at most Precision bits: the double nearest to x.
Round(x) == RoundTo(x, Max(0, BitLength(x) - Precision))

\* x / n rounded to the nearest integer, ties to the even one (n <= 50).
BigDivide(x, n) ==
    LET t2 == (x[1] % n) * Base + x[2]
        t3 == (t2 % n) * Base + x[3]
        r == t3 % n
        up == 2 * r > n \/ (2 * r = n /\ (t3 \div n) % 2 = 1)
    IN  Carry(<<x[1] \div n, t2 \div n, t3 \div n + (IF up THEN 1 ELSE 0)>>)

\* The double a magnitude of the model stands for: the one nearest to
\* tenths / 10, as significand * 2^-exponent.
DoubleOf(tenths) ==
    LET k == 56 - Bits(tenths)
        wide == BitLength(BigDivide(BigShift(tenths, k), 10)) >= Precision
        exponent == IF wide THEN k ELSE k + 1
    IN  [significand |-> BigDivide(BigShift(tenths, exponent), 10),
         exponent |-> exponent]

\* a + m in doubles, for significands in the units of m.
AddDouble(a, m) == IF a = Zero THEN m ELSE Round(BigAdd(a, m))

\* n passes of the reducer (79) from the sum a, each adding the sample m and
\* rounding: the first half of the passes, then the rest from the sum they
\* leave.
RECURSIVE AddAlike(_, _, _)
AddAlike(a, m, n) ==
    IF n = 0 THEN a
    ELSE IF n = 1 THEN AddDouble(a, m)
    ELSE CHOOSE sum \in {AddAlike(half, m, n - n \div 2) :
                            half \in {AddAlike(a, m, n \div 2)}} : TRUE

\* magnitudes.reduce((a, b) => a + b, 0) over n samples of significand m (79).
SumOfAlike(m, n) == AddAlike(Zero, m, n)

\* Nothing was computed in doubles.
NoDoubles == [carried |-> FALSE]

\* The features of N samples, all the double c, in units of 2^-c.exponent
\* (one unit in the last place of c): the mean (79); the std (80), from the
\* squares of x - mean, which are small whole numbers of units and so are
\* their sum, its quotient by N and the root, all exact; the max (81); and
\* fftMagnitudes[0] (86-94), where theta is -0, the cosine 1 and the sine -0.
FeaturesOfAlike(c, N) ==
    LET mean == BigDivide(SumOfAlike(c.significand, N), N)
        centered == [i \in 1..N |-> BigDiff(c.significand, mean)]
        sq == [i \in 1..N |-> centered[i] * centered[i]]
        real == SumTo(centered, N)
    IN  [carried |-> TRUE,
         value |-> c,
         mean |-> mean,
         std |-> Sqrt(SumTo(sq, N) \div N),
         max |-> c.significand,
         fftFirst |-> IF N \div 2 > 0 THEN Sqrt(real * real) ELSE 0]

(***************************************************************************)
(* The classification step of the effect (MetalDetector.tsx 108-129).      *)
(***************************************************************************)
MetalType == {"Iron", "Stainless Steel", "Aluminum", "No Metal", "Analyzing..."}

\* NaN, which a feature is when a magnitude of the window is NaN.  It is a
\* value of its own, outside the range of the magnitudes; every operator
\* below that takes a number treats it as JavaScript does.
NaN == 0 - 1000000

\* a > b on numbers: false when either is NaN.
Gt(a, b) == a # NaN /\ b # NaN /\ a > b

\* Math.min(a, b): NaN when either is NaN.
MathMin(a, b) == IF a = NaN \/ b = NaN THEN NaN ELSE Min(a, b)

\* 1 - (std / d) in thousandths, std in tenths: NaN when std is NaN.
OneMinus(std, d) == IF std = NaN THEN NaN ELSE 1000 - (100 * std) \div d

\* Faulty variants of Classify, each one slip away from lines 112-129.
\* The first two rules merged: the std test of line 112 left out.
ClassifySteelFirst(f) ==
    IF Gt(f.fftMax, Fix(150))
    THEN [metalType |-> "Stainless Steel", confidence |-> 890]
    ELSE IF Gt(f.std, Fix(10))
    THEN [metalType |-> "Iron", confidence |-> 880]
    ELSE IF Gt(f.fftMax, Fix(80)) /\ Gt(f.mean, Fix(60))
    THEN [metalType |-> "Aluminum", confidence |-> 780]
    ELSE [metalType |-> "No Metal", confidence |-> MathMin(990, OneMinus(f.std, 50))]

\* The Math.min of line 128 left out: 1 - std / 50 unclamped.
ClassifyNoClamp(f) ==
    IF Gt(f.fftMax, Fix(150))
    THEN IF Gt(f.std, Fix(20))
         THEN [metalType |-> "Iron", confidence |-> 940]
         ELSE [metalType |-> "Stainless Steel", confidence |-> 890]
    ELSE IF Gt(f.std, Fix(10))
    THEN [metalType |-> "Iron", confidence |-> 880]
    ELSE IF Gt(f.fftMax, Fix(80)) /\ Gt(f.mean, Fix(60))
    THEN [metalType |-> "Aluminum", confidence |-> 780]
    ELSE [metalType |-> "No Metal", confidence |-> OneMinus(f.std, 50)]

\* The divisor of line 128 mistyped: 1 - std / 5.
ClassifyWrongDivisor(f) ==
    IF Gt(f.fftMax, Fix(150))
    THEN IF Gt(f.std, Fix(20))
         THEN [metalType |-> "Iron", confidence |-> 940]
         ELSE [metalType |-> "Stainless Steel", confidence |-> 890]
    ELSE IF Gt(f.std, Fix(10))
    THEN [metalType |-> "Iron", confidence |-> 880]
    ELSE IF Gt(f.fftMax, Fix(80)) /\ Gt(f.mean, Fix(60))
    THEN [metalType |-> "Aluminum", confidence |-> 780]
    ELSE [metalType |-> "No Metal", confidence |-> MathMin(990, OneMinus(f.std, 5))]

\* The rule of line 120 (std > 10) left out.
ClassifyNoStdRule(f) ==
    IF Gt(f.fftMax, Fix(150))
    THEN IF Gt(f.std, Fix(20))
         THEN [metalType |-> "Iron", confidence |-> 940]
         ELSE [metalType |-> "Stainless Steel", confidence |-> 890]
    ELSE IF Gt(f.fftMax, Fix(80)) /\ Gt(f.mean, Fix(60))
    THEN [metalType |-> "Aluminum", confidence |-> 780]
    ELSE [metalType |-> "No Metal", confidence |-> MathMin(990, OneMinus(f.std, 50))]

\* type initialised to MetalType.UNKNOWN and the last branch made
\* conditional (else if (std <= 10)): conf keeps the 0.85 of line 109.
ClassifyNoDefault(f) ==
    IF Gt(f.fftMax, Fix(150))
    THEN IF Gt(f.std, Fix(20))
         THEN [metalType |-> "Iron", confidence |-> 940]
         ELSE [metalType |-> "Stainless Steel", confidence |-> 890]
    ELSE IF Gt(f.std, Fix(10))
    THEN [metalType |-> "Iron", confidence |-> 880]
    ELSE IF Gt(f.fftMax, Fix(80)) /\ Gt(f.mean, Fix(60))
    THEN [metalType |-> "Aluminum", confidence |-> 780]
    ELSE IF f.std # NaN /\ f.std <= Fix(10)
    THEN [metalType |-> "No Metal", confidence |-> MathMin(990, OneMinus(f.std, 50))]
    ELSE [metalType |-> "Analyzing...", confidence |-> 850]

\* A guard added in front of the rules: any NaN feature gives No Metal.
ClassifyNaNGuard(f) ==
    IF f.mean = NaN \/ f.std = NaN \/ f.fftMax = NaN
    THEN [metalType |-> "No Metal", confidence |-> NaN]
    ELSE IF Gt(f.fftMax, Fix(150))
    THEN IF Gt(f.std, Fix(20))
         THEN [metalType |-> "Iron", confidence |-> 940]
         ELSE [metalType |-> "Stainless Steel", confidence |-> 890]
    ELSE IF Gt(f.std, Fix(10))
    THEN [metalType |-> "Iron", confidence |-> 880]
    ELSE IF Gt(f.fftMax, Fix(80)) /\ Gt(f.mean, Fix(60))
    THEN [metalType |-> "Aluminum", confidence |-> 780]
    ELSE [metalType |-> "No Metal", confidence |-> MathMin(990, OneMinus(f.std, 50))]

\* The test of line 120 made inclusive: std >= 10.
ClassifyStdInclusive(f) ==
    IF Gt(f.fftMax, Fix(150))
    THEN IF Gt(f.std, Fix(20))
         THEN [metalType |-> "Iron", confidence |-> 940]
         ELSE [metalType |-> "Stainless Steel", confidence |-> 890]
    ELSE IF f.std # NaN /\ f.std >= Fix(10)
    THEN [metalType |-> "Iron", confidence |-> 880]
    ELSE IF Gt(f.fftMax, Fix(80)) /\ Gt(f.mean, Fix(60))
    THEN [metalType |-> "Aluminum", confidence |-> 780]
    ELSE [metalType |-> "No Metal", confidence |-> MathMin(990, OneMinus(f.std, 50))]

Classify(f) ==
    IF Gt(f.fftMax, Fix(150))
    THEN IF Gt(f.std, Fix(20))
         THEN [metalType |-> "Iron", confidence |-> 940]
         ELSE [metalType |-> "Stainless Steel", confidence |-> 890]
    ELSE IF Gt(f.std, Fix(10))
    THEN [metalType |-> "Iron", confidence |-> 880]
    ELSE IF Gt(f.fftMax, Fix(80)) /\ Gt(f.mean, Fix(60))
    THEN [metalType |-> "Aluminum", confidence |-> 780]
    ELSE \* Math.min(0.99, 1 - std / 50)
         [metalType |-> "No Metal", confidence |-> MathMin(990, OneMinus(f.std, 50))]

\* The PredictionResult the effect passes to setCurrentPrediction (131-135).
Prediction(features) ==
    [metalType |-> Classify(features).metalType,
     confidence |-> Classify(features).confidence,
     features |-> features]


(***************************************************************************)
(* The inputs the environment can supply.                                  *)
(***************************************************************************)
\* Device profiles: 'Magnetometer' in window, window.DeviceOrientationEvent,
\* typeof DeviceOrientationEvent.requestPermission === 'function'.
Platforms ==
    {p \in [hasMagnetometer : BOOLEAN, hasOrientation : BOOLEAN, needsPermission : BOOLEAN] :
        p.needsPermission => p.hasOrientation}

\* What a magnetometer 'reading' event finds in sensor.x, sensor.y, sensor.z
\* (tenths of a microtesla); <<>> stands for sensor.x == null.
NoReading == <<>>

MagVectors == {NoReading, <<Fix(60), Fix(80), Fix(0)>>}

\* e.alpha of a deviceorientation event, in degrees; -1 stands for null.
NoAlpha == 0 - 1

Alphas == {NoAlpha, 348}

\* Math.random(), in hundredths.
Randoms == {0}

(***************************************************************************)
(* handleNewReading (65-73): the updater passed to setDataBuffer.          *)
(***************************************************************************)
\* Faulty variants of handleNewReading.
\* The shift of line 69 left out: the window only grows.
handleNewReadingNoShift(prev, reading) == Append(prev, reading)

\* pop() in place of shift(): the newest sample is the one dropped.
handleNewReadingPop(prev, reading) ==
    LET newBuffer == Append(prev, reading)
    IN  IF Len(newBuffer) > WINDOW_SIZE
        THEN SubSeq(newBuffer, 1, Len(newBuffer) - 1)
        ELSE newBuffer

handleNewReading(prev, reading) ==
    LET newBuffer == Append(prev, reading)
    IN  IF Len(newBuffer) > WINDOW_SIZE THEN Tail(newBuffer) ELSE newBuffer

\* Several readings delivered in one task, applied in order.
RECURSIVE PushAll(_, _)
PushAll(prev, readings) ==
    IF readings = <<>> THEN prev
    ELSE PushAll(handleNewReading(prev, Head(readings)), Tail(readings))

\* A SensorData value: only total is ever read back; src records which kind
\* of source produced the reading.
Reading(total, src) == [total |-> total, src |-> src]

(***************************************************************************)
(* The control state the start / stop functions read and write, as one     *)
(* record, so that each function of the component is one operator on it.   *)
(* render is set when a setter was given a fresh object (always re-render).*)
(***************************************************************************)
Ctl ==
    [isScanning |-> isScanning, simulationMode |-> simulationMode,
     sensorType |-> sensorType, errorMsg |-> errorMsg,
     sensorRef |-> sensorRef, intervalRef |-> intervalRef,
     attempts |-> attempts, render |-> FALSE]

\* An attempt: stage is what it holds now, gen the render whose closures its
\* callbacks captured.  History: simRequested is simulationMode as START saw
\* it, found the tiers the attempt found absent, denied or failing.
\*   "magQuery"     awaiting navigator.permissions.query          (203)
\*   "mag"          a started Magnetometer                        (223)
\*   "compassPerm"  awaiting DeviceOrientationEvent.requestPermission (166)
\*   "compass"      a registered deviceorientation listener       (173)
\*   "simTimer"     the pending setTimeout of the last resort     (243)
\*   "sim"          a running setInterval                         (265)
\*   "closed"       nothing
Stages == {"magQuery", "mag", "compassPerm", "compass", "simTimer", "sim", "closed"}

SetStage(st, a, stage) == [st EXCEPT !.attempts[a].stage = stage]

\* Attempt a found the tier absent, denied or failing.
Found(st, a, tier) == [st EXCEPT !.attempts[a].found = @ \cup {tier}]

\* showSensorError (248-260): setErrorMsg(<div>...</div>)
showSensorError(st) == [st EXCEPT !.errorMsg = TRUE, !.render = TRUE]

\* startSimulation (262-266)
startSimulation(st, a) ==
    [SetStage(st, a, "sim") EXCEPT
        !.isScanning = TRUE, !.sensorType = "Simulation", !.intervalRef = a]

\* window.addEventListener('deviceorientation', handleOrientationReading) (173):
\* adding a function that is already registered adds nothing.
addOrientationListener(st, a) ==
    IF \E b \in 1..Len(st.attempts) :
          b # a /\ st.attempts[b].stage = "compass" /\ st.attempts[b].gen = st.attempts[a].gen
    THEN SetStage(st, a, "closed")
    ELSE SetStage(st, a, "compass")

\* startCompassFallback (162-182) up to its await, or to its end when it
\* does not await.  Without DeviceOrientationEvent line 165 throws.
startCompassFallback(st, a) ==
    IF ~platform.hasOrientation
    THEN startSimulation([showSensorError(Found(st, a, "Compass")) EXCEPT
                             !.simulationMode = TRUE], a)
    ELSE IF platform.needsPermission
    THEN SetStage(st, a, "compassPerm")
    ELSE [addOrientationListener(st, a) EXCEPT !.sensorType = "Compass", !.isScanning = TRUE]

\* startCompassFallback after its await (167-181).
compassPermission(st, a, response) ==
    CASE response = "granted" ->
            [addOrientationListener(st, a) EXCEPT !.sensorType = "Compass", !.isScanning = TRUE]
      [] response = "denied" ->
            showSensorError(SetStage(Found(st, a, "Compass"), a, "closed"))
      [] OTHER -> startSimulation([showSensorError(Found(st, a, "Compass")) EXCEPT
                                      !.simulationMode = TRUE], a)

\* toggleScan from tier 3 on (234-246).
compassTier(st, a) ==
    IF platform.hasOrientation
    THEN startCompassFallback(st, a)
    ELSE [showSensorError(SetStage(Found(st, a, "Compass"), a, "simTimer")) EXCEPT
             !.simulationMode = TRUE]

\* toggleScan after the await of line 203 (204-232).
magnetometerPermission(st, a, state) ==
    IF state = "granted"
    THEN [SetStage(st, a, "mag") EXCEPT
             !.sensorRef = a, !.sensorType = "Magnetometer", !.isScanning = TRUE]
    ELSE compassTier(Found(st, a, "Magnetometer"), a)

\* A faulty variant of stopScan: it also leaves simulation mode.
stopScanLeavingSimulation(st, g) ==
    [st EXCEPT
        !.isScanning = FALSE,
        !.simulationMode = FALSE,
        !.sensorRef = 0,
        !.intervalRef = 0,
        !.attempts =
            [i \in 1..Len(st.attempts) |->
                IF \/ i = st.sensorRef /\ st.attempts[i].stage = "mag"
                   \/ i = st.intervalRef /\ st.attempts[i].stage = "sim"
                   \/ st.attempts[i].stage = "compass" /\ st.attempts[i].gen = g
                THEN [st.attempts[i] EXCEPT !.stage = "closed"]
                ELSE st.attempts[i]]]

\* A faulty variant of stopScan: setIsScanning(s => !s) in place of
\* setIsScanning(false).
stopScanToggle(st, g) ==
    [st EXCEPT
        !.isScanning = ~st.isScanning,
        !.sensorRef = 0,
        !.intervalRef = 0,
        !.attempts =
            [i \in 1..Len(st.attempts) |->
                IF \/ i = st.sensorRef /\ st.attempts[i].stage = "mag"
                   \/ i = st.intervalRef /\ st.attempts[i].stage = "sim"
                   \/ st.attempts[i].stage = "compass" /\ st.attempts[i].gen = g
                THEN [st.attempts[i] EXCEPT !.stage = "closed"]
                ELSE st.attempts[i]]]

\* stopScan (268-279), called by the render of generation g.
stopScan(st, g) ==
    [st EXCEPT
        !.isScanning = FALSE,
        !.sensorRef = 0,
        !.intervalRef = 0,
        !.attempts =
            [i \in 1..Len(st.attempts) |->
                IF \/ i = st.sensorRef /\ st.attempts[i].stage = "mag"
                   \/ i = st.intervalRef /\ st.attempts[i].stage = "sim"
                   \/ st.attempts[i].stage = "compass" /\ st.attempts[i].gen = g
                THEN [st.attempts[i] EXCEPT !.stage = "closed"]
                ELSE st.attempts[i]]]

\* stopScan of the detector that knows the magnetometer only (614-620).
stopScanMagnetometerOnly(st) ==
    [st EXCEPT
        !.isScanning = FALSE,
        !.sensorRef = 0,
        !.attempts =
            [i \in 1..Len(st.attempts) |->
                IF i = st.sensorRef /\ st.attempts[i].stage = "mag"
                THEN [st.attempts[i] EXCEPT !.stage = "closed"]
                ELSE st.attempts[i]]]

\* A faulty variant of startScan: the compass tier tried before the
\* magnetometer.
startScanCompassFirst(st, a) ==
    LET cleared == [st EXCEPT !.errorMsg = FALSE]
    IN  IF st.simulationMode
        THEN startSimulation([cleared EXCEPT !.sensorType = "Simulation"], a)
        ELSE IF platform.hasOrientation
        THEN startCompassFallback(cleared, a)
        ELSE IF platform.hasMagnetometer
        THEN SetStage(cleared, a, "magQuery")
        ELSE compassTier(Found(cleared, a, "Magnetometer"), a)

\* toggleScan (184-246) with isScanning false, up to its first await.
startScan(st, a) ==
    LET cleared == [st EXCEPT !.errorMsg = FALSE]
    IN  IF st.simulationMode
        THEN startSimulation([cleared EXCEPT !.sensorType = "Simulation"], a)
        ELSE IF platform.hasMagnetometer
        THEN SetStage(cleared, a, "magQuery")
        ELSE compassTier(Found(cleared, a, "Magnetometer"), a)


(***************************************************************************)
(* Renders.  Every render makes new closures; handleOrientationReading,    *)
(* toggleScan and startCompassFallback are plain functions of the render.  *)
(* gen names the render in use.  A render whose closures nobody captured   *)
(* is indistinguishable from the next one, so gen moves on only when a     *)
(* live attempt holds closures of the current one.                         *)
(***************************************************************************)
Captured(atts, g) ==
    \E i \in 1..Len(atts) :
        atts[i].gen = g /\ atts[i].stage \in {"magQuery", "mag", "compassPerm", "compass"}

Rerenders(st) ==
    \/ st.render
    \/ st.isScanning # isScanning
    \/ st.simulationMode # simulationMode
    \/ st.sensorType # sensorType
    \/ st.errorMsg # errorMsg

\* The control state after a handler ran, and the render that follows.
Apply(st) ==
    /\ isScanning' = st.isScanning
    /\ simulationMode' = st.simulationMode
    /\ sensorType' = st.sensorType
    /\ errorMsg' = st.errorMsg
    /\ sensorRef' = st.sensorRef
    /\ intervalRef' = st.intervalRef
    /\ attempts' = st.attempts
    /\ gen' = IF Rerenders(st) /\ Captured(st.attempts, gen) THEN gen + 1 ELSE gen
    /\ UNCHANGED <<dataBuffer, simSettings, currentPrediction, lastAlphaRef, platform,
                   effectPending, pushed, lastSource, fv, verdict,
                   extraction>>
    /\ UNCHANGED assistantVars

\* Clicks, permission results, sensor errors and timers fall between bursts,
\* and React runs the pending effect of a commit before the next render.
Quiet == ~effectPending /\ Len(pushed) % Grain = 0

(***************************************************************************)
(* The user.  The assistant, when open, is a modal over the whole screen   *)
(* (MetalDetector.tsx 776), so the detector's buttons are used when it is  *)
(* closed.                                                                 *)
(***************************************************************************)
\* onClick={toggleScan} (416): STOP when scanning, START otherwise.
ToggleScan ==
    /\ Quiet
    /\ ~showAI
    /\ IF isScanning
       THEN Apply(stopScan(Ctl, gen))
       ELSE /\ Len(attempts) < MaxStarts
            /\ Apply(startScan([Ctl EXCEPT !.attempts =
                                   Append(attempts, [stage |-> "closed", gen |-> gen,
                                                     simRequested |-> simulationMode,
                                                     found |-> {}])],
                               Len(attempts) + 1))

\* The mode button (435-441): stopScan(); setSimulationMode(!simulationMode).
ModeToggle ==
    /\ Quiet
    /\ ~showAI
    /\ Apply([stopScan(Ctl, gen) EXCEPT !.simulationMode = ~simulationMode])

\* The button of the error banner (252-257).
ForceSimulationMode ==
    /\ Quiet
    /\ ~showAI
    /\ errorMsg
    /\ Apply([Ctl EXCEPT !.simulationMode = TRUE, !.errorMsg = FALSE])

(***************************************************************************)
(* The browser: results of the pending calls, sensor errors, the timer.    *)
(***************************************************************************)
\* navigator.permissions.query settles; "error" stands for a rejection or
\* for new Magnetometer / sensor.start() throwing (229).
MagnetometerPermission(a, state) ==
    /\ Quiet
    /\ attempts[a].stage = "magQuery"
    /\ Apply(magnetometerPermission(Ctl, a, state))

\* DeviceOrientationEvent.requestPermission settles.
CompassPermission(a, response) ==
    /\ Quiet
    /\ attempts[a].stage = "compassPerm"
    /\ Apply(compassPermission(Ctl, a, response))

\* The 'error' listener of a started sensor (217-222): its closure saw
\* isScanning false, so it always goes on to startCompassFallback.
SensorError(a) ==
    /\ Quiet
    /\ attempts[a].stage = "mag"
    /\ Apply(startCompassFallback(SetStage(Found(Ctl, a, "Magnetometer"), a, "closed"), a))

\* The setTimeout of the last resort fires (243-245).
SimulationTimeout(a) ==
    /\ Quiet
    /\ attempts[a].stage = "simTimer"
    /\ Apply(startSimulation(Ctl, a))

(***************************************************************************)
(* The acquisition sources.                                                *)
(***************************************************************************)
\* A faulty variant of Deliver: readings are dropped while the assistant
\* is loading.
DeliverUnlessLoading(readings, src) ==
    /\ ~loading
    /\ ~effectPending
    /\ Len(pushed) + Len(readings)
          <= (IF Len(attempts) <= 1 THEN MaxPushes ELSE MaxPushesRestarted)
    /\ Len(pushed) % Grain = 0 \/ lastSource = src
    /\ dataBuffer' = PushAll(dataBuffer, readings)
    /\ pushed' = pushed \o readings
    /\ lastSource' = src
    /\ effectPending' = TRUE
    /\ gen' = IF Captured(attempts, gen) THEN gen + 1 ELSE gen
    /\ UNCHANGED <<isScanning, simulationMode, sensorType, simSettings, currentPrediction,
                   errorMsg, sensorRef, intervalRef, platform, attempts, fv, verdict,
                   extraction>>
    /\ UNCHANGED assistantVars

\* One task delivers readings (a sequence, in order) from source src.
Deliver(readings, src) ==
    /\ ~effectPending
    /\ Len(pushed) + Len(readings)
          <= (IF Len(attempts) <= 1 THEN MaxPushes ELSE MaxPushesRestarted)
    /\ Len(pushed) % Grain = 0 \/ lastSource = src
    /\ dataBuffer' = PushAll(dataBuffer, readings)
    /\ pushed' = pushed \o readings
    /\ lastSource' = src
    /\ effectPending' = TRUE
    /\ gen' = IF Captured(attempts, gen) THEN gen + 1 ELSE gen
    /\ UNCHANGED <<isScanning, simulationMode, sensorType, simSettings, currentPrediction,
                   errorMsg, sensorRef, intervalRef, platform, attempts, fv, verdict,
                   extraction>>
    /\ UNCHANGED assistantVars

\* The 'reading' listener of a started sensor (210-216).
SensorReading(a, v) ==
    /\ attempts[a].stage = "mag"
    /\ IF v = NoReading
       THEN UNCHANGED vars
       ELSE /\ Deliver(<<Reading(Sqrt(v[1] * v[1] + v[2] * v[2] + v[3] * v[3]), "Magnetometer")>>,
                       <<"Magnetometer", a>>)
            /\ UNCHANGED lastAlphaRef

\* handleOrientationReading (138-160): the magnitude it derives from e.alpha.
orientationSignal(alpha, lastAlpha) ==
    LET d == Abs(alpha - lastAlpha)
        delta == IF d > 180 THEN 360 - d ELSE d
    IN  Fix(45) + Fix(delta) * 8

\* A deviceorientation event: the browser calls every registered listener,
\* each a handleOrientationReading of some render, all sharing lastAlphaRef.
OrientationEvent(alpha) ==
    LET n == Cardinality({a \in 1..Len(attempts) : attempts[a].stage = "compass"})
    IN  /\ n > 0
        /\ IF alpha = NoAlpha
           THEN UNCHANGED vars
           ELSE /\ Deliver([i \in 1..n |->
                               Reading(orientationSignal(alpha,
                                           IF i = 1 THEN lastAlphaRef ELSE alpha), "Compass")],
                           <<"Compass", 0>>)
                /\ lastAlphaRef' = alpha

\* simulateReading (41-63): r1, r2, r3 are the three Math.random() results
\* in hundredths, sine is Math.sin(time / 200) in hundredths.
simulateReading(settings, r1, r2, r3, sine) ==
    LET spike == settings.base < 80 /\ r2 > 96
        currentBase == Fix(settings.base) + (IF spike THEN (sine * 50) \div 10 ELSE 0)
        currentNoise == (r1 * settings.noise) \div 10 + (IF spike THEN (r3 * 15) \div 10 ELSE 0)
    IN  currentBase + currentNoise

\* A tick of a running setInterval (265).
IntervalTick(a, r1, r2, r3) ==
    /\ attempts[a].stage = "sim"
    /\ Deliver(<<Reading(simulateReading(simSettings, r1, r2, r3, 0), "Simulation")>>,
               <<"Simulation", a>>)
    /\ UNCHANGED lastAlphaRef

(***************************************************************************)
(* The classification effect (103-136), run after a change of dataBuffer.  *)
(***************************************************************************)
\* The features of the initial prediction (27).
NoFeatures == [mean |-> 0, std |-> 0, max |-> 0, fftMean |-> 0, fftMax |-> 0]

\* lastPrediction of App before the first AI ANALYZE: null
\* (AnalysisDashboard.tsx 117).
NoPrediction == [metalType |-> "", confidence |-> 0, features |-> NoFeatures]

\* Faulty variants of classificationEffect.
\* The guard of line 104 with a smaller length: short windows are classified.
classificationEffectEarly(buffer, prior) ==
    IF Len(buffer) < 10 THEN prior ELSE Prediction(extractFeatures(buffer))

\* The effect as if it ran for the first full window only (a dependency
\* array that misses dataBuffer): later windows keep the first result.
classificationEffectOnce(buffer, prior) ==
    IF Len(buffer) < WINDOW_SIZE \/ prior.features.max # 0
    THEN prior
    ELSE Prediction(extractFeatures(buffer))

\* The confidence smoothed over cycles: never below that of the prediction
\* before (conf = Math.max(conf, currentPrediction.confidence)).
classificationEffectSmoothed(buffer, prior) ==
    IF Len(buffer) < WINDOW_SIZE THEN prior
    ELSE [Prediction(extractFeatures(buffer)) EXCEPT
             !.confidence = Max(prior.confidence, @)]

classificationEffect(buffer, prior) ==
    IF Len(buffer) < WINDOW_SIZE THEN prior ELSE Prediction(extractFeatures(buffer))

\* A faulty variant of ClassifyEffect: App shows the detector's live
\* prediction, so an open assistant follows every cycle.
ClassifyEffectShared ==
    /\ effectPending
    /\ effectPending' = FALSE
    /\ currentPrediction' = classificationEffect(dataBuffer, currentPrediction)
    /\ lastPrediction' = IF lastPrediction = NoPrediction THEN lastPrediction
                         ELSE currentPrediction'
    /\ gen' = IF Len(dataBuffer) >= WINDOW_SIZE /\ Captured(attempts, gen) THEN gen + 1 ELSE gen
    /\ UNCHANGED <<isScanning, simulationMode, sensorType, dataBuffer, simSettings, errorMsg,
                   sensorRef, intervalRef, lastAlphaRef, platform, attempts, pushed,
                   lastSource, fv, verdict,
                   extraction>>
    /\ UNCHANGED <<showAI, sensorReadings, analysis, tips, loading, hasClient, requests>>

ClassifyEffect ==
    /\ effectPending
    /\ effectPending' = FALSE
    /\ currentPrediction' = classificationEffect(dataBuffer, currentPrediction)
    /\ gen' = IF Len(dataBuffer) >= WINDOW_SIZE /\ Captured(attempts, gen) THEN gen + 1 ELSE gen
    /\ UNCHANGED <<isScanning, simulationMode, sensorType, dataBuffer, simSettings, errorMsg,
                   sensorRef, intervalRef, lastAlphaRef, platform, attempts, pushed,
                   lastSource, fv, verdict,
                   extraction>>
    /\ UNCHANGED assistantVars

(***************************************************************************)
(* The component after its first render, on any device.                    *)
(***************************************************************************)
InitialPrediction == [metalType |-> "No Metal", confidence |-> 0, features |-> NoFeatures]

NoVerdict == [done |-> FALSE, metalType |-> "Analyzing...", confidence |-> 0]

\* extractFeatures was not called.
NoExtraction == [called |-> FALSE]

Mounted ==
    /\ isScanning = FALSE
    /\ simulationMode = FALSE
    /\ sensorType = "Simulation"
    /\ dataBuffer = <<>>
    /\ simSettings = [base |-> DEFAULT_SIM_BASE, noise |-> DEFAULT_SIM_NOISE]
    /\ currentPrediction = InitialPrediction
    /\ errorMsg = FALSE
    /\ sensorRef = 0
    /\ intervalRef = 0
    /\ lastAlphaRef = 0
    /\ attempts = <<>>
    /\ gen = 0
    /\ effectPending = FALSE
    /\ pushed = <<>>
    /\ lastSource = <<"", 0>>

\* App and AIAssistant after their first render (AnalysisDashboard.tsx
\* 116-118, MetalDetector.tsx 754-756).
NoText == [text |-> "", req |-> 0]

AssistantIdle ==
    /\ showAI = FALSE
    /\ lastPrediction = NoPrediction
    /\ sensorReadings = <<>>
    /\ analysis = NoText
    /\ tips = NoText
    /\ loading = FALSE
    /\ requests = <<>>

Init ==
    /\ Mounted
    /\ AssistantIdle
    /\ hasClient = TRUE
    /\ platform \in Platforms
    /\ fv = NoFeatures
    /\ verdict = NoVerdict
    /\ extraction = NoExtraction

Next ==
    \/ ToggleScan
    \/ ModeToggle
    \/ ForceSimulationMode
    \/ \E a \in 1..Len(attempts), state \in {"granted", "denied", "error"} :
          MagnetometerPermission(a, state)
    \/ \E a \in 1..Len(attempts), response \in {"granted", "denied", "error"} :
          CompassPermission(a, response)
    \/ \E a \in 1..Len(attempts) : SensorError(a)
    \/ \E a \in 1..Len(attempts) : SimulationTimeout(a)
    \/ \E a \in 1..Len(attempts), v \in MagVectors : SensorReading(a, v)
    \/ \E alpha \in Alphas : OrientationEvent(alpha)
    \/ \E a \in 1..Len(attempts), r1 \in Randoms, r2 \in Randoms, r3 \in Randoms :
          IntervalTick(a, r1, r2, r3)
    \/ ClassifyEffect

Spec == Init /\ [][Next]_vars

(***************************************************************************)
(* The detector with its simulation controls (332-365), which are rendered *)
(* in simulation mode.  The user sets them before the first scan.          *)
(***************************************************************************)
\* Where the two sliders (346-350, 356-360) are moved to.
SliderPositions == {<<"base", 90>>, <<"noise", 10>>}

\* The updater of handleSimChange (287): { ...prev, [key]: parseFloat(value) }.
\* value is e.target.value of a range input with whole steps, the decimal
\* text of a whole number, and parseFloat reads that number back.
handleSimChange(prev, key, value) == [prev EXCEPT ![key] = value]

\* resetSimSettings (290-292).
resetSimSettings == [base |-> DEFAULT_SIM_BASE, noise |-> DEFAULT_SIM_NOISE]

\* onChange of a slider (349, 359), fired when its position changes.
SimChange(key, value) ==
    /\ Quiet
    /\ ~showAI
    /\ simulationMode
    /\ ~isScanning
    /\ pushed = <<>>
    /\ simSettings[key] # value
    /\ simSettings' = handleSimChange(simSettings, key, value)
    /\ gen' = IF Captured(attempts, gen) THEN gen + 1 ELSE gen
    /\ UNCHANGED <<isScanning, simulationMode, sensorType, dataBuffer, currentPrediction,
                   errorMsg, sensorRef, intervalRef, lastAlphaRef, platform, attempts,
                   effectPending, pushed, lastSource, fv, verdict, extraction>>
    /\ UNCHANGED assistantVars

\* onClick of the reset button (339).
ResetSettings ==
    /\ Quiet
    /\ ~showAI
    /\ simulationMode
    /\ ~isScanning
    /\ pushed = <<>>
    /\ simSettings' = resetSimSettings
    /\ gen' = IF Captured(attempts, gen) THEN gen + 1 ELSE gen
    /\ UNCHANGED <<isScanning, simulationMode, sensorType, dataBuffer, currentPrediction,
                   errorMsg, sensorRef, intervalRef, lastAlphaRef, platform, attempts,
                   effectPending, pushed, lastSource, fv, verdict, extraction>>
    /\ UNCHANGED assistantVars

\* The devices with at most one kind of sensor.
SettingsPlatforms == {p \in Platforms : ~(p.hasMagnetometer /\ p.hasOrientation)}

InitSettings ==
    /\ Mounted
    /\ AssistantIdle
    /\ hasClient = TRUE
    /\ platform \in SettingsPlatforms
    /\ fv = NoFeatures
    /\ verdict = NoVerdict
    /\ extraction = NoExtraction

NextSettings ==
    \/ Next
    \/ \E c \in SliderPositions : SimChange(c[1], c[2])
    \/ ResetSettings

SpecSettings == InitSettings /\ [][NextSettings]_vars

(***************************************************************************)
(* The classifier on its own: the effect's classification step applied to  *)
(* a feature vector, over vectors on and around every threshold of the     *)
(* rules (tenths), and vectors with NaN features.                          *)
(***************************************************************************)
StdValues == {NaN, 0, 50, 100, 101, 200, 201, 250, 600}

FftMaxValues == {NaN, 0, 800, 801, 1500, 1501, 2000}

MeanValues == {NaN, 0, 600, 601, 1000}

FeatureVectors ==
    {[mean |-> m, std |-> s, max |-> m, fftMean |-> 0, fftMax |-> x] :
        m \in MeanValues, s \in StdValues, x \in FftMaxValues}

InitClassify ==
    /\ Mounted
    /\ AssistantIdle
    /\ hasClient = TRUE
    /\ platform = [hasMagnetometer |-> FALSE, hasOrientation |-> FALSE,
                   needsPermission |-> FALSE]
    /\ fv \in FeatureVectors
    /\ verdict = NoVerdict
    /\ extraction = NoExtraction

\* Lines 108-129 applied to fv.
ClassifyStep ==
    /\ ~verdict.done
    /\ verdict' = [done |-> TRUE, metalType |-> Classify(fv).metalType,
                   confidence |-> Classify(fv).confidence]
    /\ UNCHANGED <<isScanning, simulationMode, sensorType, dataBuffer, simSettings,
                   currentPrediction, errorMsg, sensorRef, intervalRef, lastAlphaRef,
                   platform, attempts, gen, effectPending, pushed, lastSource, fv,
                   extraction>>
    /\ UNCHANGED assistantVars

NextClassify == ClassifyStep

SpecClassify == InitClassify /\ [][NextClassify]_vars

(***************************************************************************)
(* Extraction on its own: extractFeatures called on a window, and the      *)
(* effect run over it, for windows of square waves between two levels      *)
(* (constant windows among them) of every length the trigonometric table   *)
(* is exact for, in each of several states of the component.               *)
(***************************************************************************)
\* Magnitudes of the samples, in tenths.
Levels == {0, Fix(40), Fix(45), 453, Fix(60), Fix(140)}

\* Samples per half period of the wave.
HalfPeriods == {1, 5, 25}

\* Lengths of the window; the effect extracts from the last one only.
WindowLengths == {0, 1, 2, 5, 10, 25, WINDOW_SIZE}

\* h samples of magnitude a, then h of magnitude b, and so on, N in all.
Square(a, b, h, N, src) ==
    [i \in 1..N |-> Reading(IF ((i - 1) \div h) % 2 = 0 THEN a ELSE b, src)]

\* A prediction of an earlier cycle, over a window of 0 and 140.
EarlierPrediction ==
    [metalType |-> "Iron", confidence |-> 940,
     features |-> [mean |-> Fix(70), std |-> Fix(70), max |-> Fix(140),
                   fftMean |-> Fix(500), fftMax |-> Fix(2000)]]

\* States of the component a cycle can run in: the scanning flag, the mode,
\* the source type shown and the kind of source that filled the window, the
\* simulation settings, the prediction of the cycle before.
Contexts ==
    { [isScanning |-> FALSE, simulationMode |-> FALSE, sensorType |-> "Simulation",
       src |-> "Simulation",
       simSettings |-> [base |-> DEFAULT_SIM_BASE, noise |-> DEFAULT_SIM_NOISE],
       prior |-> InitialPrediction],
      [isScanning |-> TRUE, simulationMode |-> TRUE, sensorType |-> "Simulation",
       src |-> "Simulation",
       simSettings |-> [base |-> 90, noise |-> 10],
       prior |-> EarlierPrediction],
      [isScanning |-> TRUE, simulationMode |-> FALSE, sensorType |-> "Magnetometer",
       src |-> "Magnetometer",
       simSettings |-> [base |-> DEFAULT_SIM_BASE, noise |-> DEFAULT_SIM_NOISE],
       prior |-> EarlierPrediction],
      [isScanning |-> TRUE, simulationMode |-> FALSE, sensorType |-> "Compass",
       src |-> "Magnetometer",
       simSettings |-> [base |-> DEFAULT_SIM_BASE, noise |-> DEFAULT_SIM_NOISE],
       prior |-> InitialPrediction] }

InitExtract ==
    /\ \E c \in Contexts :
          /\ isScanning = c.isScanning
          /\ simulationMode = c.simulationMode
          /\ sensorType = c.sensorType
          /\ simSettings = c.simSettings
          /\ currentPrediction = c.prior
          /\ \E a \in Levels, b \in Levels, h \in HalfPeriods, N \in WindowLengths :
                dataBuffer = Square(a, b, h, N, c.src)
    /\ errorMsg = FALSE
    /\ sensorRef = 0
    /\ intervalRef = 0
    /\ lastAlphaRef = 0
    /\ attempts = <<>>
    /\ gen = 0
    /\ effectPending = TRUE
    /\ pushed = <<>>
    /\ lastSource = <<"", 0>>
    /\ AssistantIdle
    /\ hasClient = TRUE
    /\ platform = [hasMagnetometer |-> FALSE, hasOrientation |-> FALSE,
                   needsPermission |-> FALSE]
    /\ fv = NoFeatures
    /\ verdict = NoVerdict
    /\ extraction = NoExtraction

\* The samples of the buffer are all alike.
Alike(buffer) == \A i \in 1..Len(buffer) : buffer[i].total = buffer[1].total

\* What a call of extractFeatures did: it returned features (for samples
\* all alike, doubles is what they are in the arithmetic of the component),
\* or it threw.
Returned(doubles) == [called |-> TRUE, thrown |-> FALSE, doubles |-> doubles]

\* On an empty buffer the reduce of line 80, which has no initial value,
\* throws a TypeError.
TypeError == [called |-> TRUE, thrown |-> TRUE, doubles |-> NoDoubles]

\* extractFeatures called on the window, and lines 108-129 on what it returns.
ExtractStep ==
    /\ ~extraction.called
    /\ IF Len(dataBuffer) = 0
       THEN /\ extraction' = TypeError
            /\ UNCHANGED <<fv, verdict>>
       ELSE /\ extraction' =
                  Returned(IF Alike(dataBuffer)
                           THEN FeaturesOfAlike(DoubleOf(dataBuffer[1].total), Len(dataBuffer))
                           ELSE NoDoubles)
            /\ fv' = extractFeatures(dataBuffer)
            /\ verdict' = [done |-> TRUE, metalType |-> Classify(fv').metalType,
                           confidence |-> Classify(fv').confidence]
    /\ UNCHANGED <<isScanning, simulationMode, sensorType, dataBuffer, simSettings,
                   currentPrediction, errorMsg, sensorRef, intervalRef, lastAlphaRef,
                   platform, attempts, gen, effectPending, pushed, lastSource>>
    /\ UNCHANGED assistantVars

NextExtract == ExtractStep \/ ClassifyEffect

SpecExtract == InitExtract /\ [][NextExtract]_vars

(***************************************************************************)
(* The narrative service (types.ts 43-114).  A call of generateContent     *)
(* resolves with a text, resolves without one, or rejects.                 *)
(***************************************************************************)
ServiceOutcomes == {"text", "empty", "throws"}

\* response.text when the service returned one.
ResponseText == "<response.text>"

\* What a promise settles to.
Resolved(text) == [rejected |-> FALSE, text |-> text]

Rejected == [rejected |-> TRUE, text |-> ""]

\* A faulty variant of Slice: slice(0, 20) in place of slice(-20).
SliceHead(s, begin) == SubSeq(s, 1, Min(Len(s), Abs(begin)))

\* Array.prototype.slice(begin) (types.ts 64): a negative begin counts
\* from the end.
Slice(s, begin) ==
    LET start == IF begin < 0 THEN Max(Len(s) + begin, 0) ELSE Min(begin, Len(s))
    IN  SubSeq(s, start + 1, Len(s))

\* The prompt analyzeMetalReading builds (64-86): the prediction and the
\* sample of readings, which join(', ') writes out in their order.
NoPrompt == [sent |-> FALSE, prediction |-> NoPrediction, readingSample |-> <<>>]

Prompt(prediction, recentReadings, client) ==
    IF client
    THEN [sent |-> TRUE, prediction |-> prediction,
          readingSample |-> Slice(recentReadings, 0 - 20)]
    ELSE NoPrompt

\* A faulty variant of analyzeMetalReading: the try / catch left out.
analyzeMetalReadingNoCatch(prediction, recentReadings, client, outcome) ==
    IF ~client
    THEN Resolved("Gemini API key not configured. Please check your settings.")
    ELSE CASE outcome = "text" -> Resolved(ResponseText)
           [] outcome = "empty" -> Resolved("Analysis complete. No text returned.")
           [] OTHER -> Rejected

\* analyzeMetalReading (55-98): what its promise settles to.
analyzeMetalReading(prediction, recentReadings, client, outcome) ==
    IF ~client
    THEN Resolved("Gemini API key not configured. Please check your settings.")
    ELSE CASE outcome = "text" -> Resolved(ResponseText)
           [] outcome = "empty" -> Resolved("Analysis complete. No text returned.")
           [] OTHER -> Resolved("Unable to connect to AI analysis service at this time.")

\* A faulty variant of getSafetyTips: the try / catch left out.
getSafetyTipsNoCatch(metalType, client, outcome) ==
    IF ~client
    THEN Resolved("Configure API Key for safety tips.")
    ELSE CASE outcome = "text" -> Resolved(ResponseText)
           [] outcome = "empty" -> Resolved("No tips available.")
           [] OTHER -> Rejected

\* getSafetyTips (100-114): what its promise settles to.
getSafetyTips(metalType, client, outcome) ==
    IF ~client
    THEN Resolved("Configure API Key for safety tips.")
    ELSE CASE outcome = "text" -> Resolved(ResponseText)
           [] outcome = "empty" -> Resolved("No tips available.")
           [] OTHER -> Resolved("Error fetching safety tips.")

(***************************************************************************)
(* App and AIAssistant (AnalysisDashboard.tsx 145-149, 252-256;            *)
(* MetalDetector.tsx 753-771).                                             *)
(***************************************************************************)
\* fetchData up to its await (760-765): setLoading(true) and the two calls.
fetchData(prediction, readings, client) ==
    [state |-> "pending", prediction |-> prediction, readings |-> readings,
     prompt |-> Prompt(prediction, readings, client), outcome |-> <<"", "">>]

\* A render of App renders MetalDetector again, with new closures.
AppRender == gen' = IF Captured(attempts, gen) THEN gen + 1 ELSE gen

\* AI ANALYZE (423-430): handleManualAnalyze (281-284) calls
\* handleAnalyzeRequest, and the effect of AIAssistant runs fetchData.
AnalyzeRequest ==
    /\ Quiet
    /\ ~showAI
    /\ Len(dataBuffer) >= 10
    /\ Len(requests) < MaxAnalyses
    /\ LET magnitudes == [i \in 1..Len(dataBuffer) |-> dataBuffer[i].total]
       IN  /\ lastPrediction' = currentPrediction
           /\ sensorReadings' = magnitudes
           /\ requests' = Append(requests, fetchData(currentPrediction, magnitudes, hasClient))
    /\ showAI' = TRUE
    /\ loading' = TRUE
    /\ AppRender
    /\ UNCHANGED <<isScanning, simulationMode, sensorType, dataBuffer, simSettings,
                   currentPrediction, errorMsg, sensorRef, intervalRef, lastAlphaRef,
                   platform, attempts, effectPending, pushed, lastSource, fv, verdict,
                   extraction,
                   analysis, tips, hasClient>>

\* onClose (254): setShowAI(false).
CloseAssistant ==
    /\ showAI
    /\ showAI' = FALSE
    /\ AppRender
    /\ UNCHANGED <<isScanning, simulationMode, sensorType, dataBuffer, simSettings,
                   currentPrediction, errorMsg, sensorRef, intervalRef, lastAlphaRef,
                   platform, attempts, effectPending, pushed, lastSource, fv, verdict,
                   extraction,
                   lastPrediction, sensorReadings, analysis, tips, loading, hasClient,
                   requests>>

\* Promise.all of run i settles (761-767): both calls have settled, the
\* analysis call as oa and the tips call as ot.  When one rejects, fetchData
\* rejects and sets nothing.
FetchSettles(i, oa, ot) ==
    /\ requests[i].state = "pending"
    /\ LET r == requests[i]
           analysisRes == analyzeMetalReading(r.prediction, r.readings, hasClient, oa)
           tipsRes == getSafetyTips(r.prediction.metalType, hasClient, ot)
       IN  IF analysisRes.rejected \/ tipsRes.rejected
           THEN /\ requests' = [requests EXCEPT ![i].state = "failed"]
                /\ UNCHANGED <<analysis, tips, loading>>
           ELSE /\ requests' = [requests EXCEPT
                                   ![i].state = "done",
                                   ![i].outcome = IF hasClient THEN <<oa, ot>>
                                                  ELSE <<"none", "none">>]
                /\ analysis' = [text |-> analysisRes.text, req |-> i]
                /\ tips' = [text |-> tipsRes.text, req |-> i]
                /\ loading' = FALSE
    /\ UNCHANGED <<isScanning, simulationMode, sensorType, dataBuffer, simSettings,
                   currentPrediction, errorMsg, sensorRef, intervalRef, lastAlphaRef,
                   platform, attempts, gen, effectPending, pushed, lastSource, fv, verdict,
                   extraction,
                   showAI, lastPrediction, sensorReadings, hasClient>>

(***************************************************************************)
(* The service on its own: the assistant rendered open over a prediction   *)
(* and a list of readings of any length, with and without a client, and    *)
(* one run of fetchData.                                                   *)
(***************************************************************************)
ReadingLists == {[i \in 1..L |-> Fix(40) + i] : L \in 0..MaxReadings}

InitService ==
    /\ Mounted
    /\ platform = [hasMagnetometer |-> FALSE, hasOrientation |-> FALSE,
                   needsPermission |-> FALSE]
    /\ fv = NoFeatures
    /\ verdict = NoVerdict
    /\ extraction = NoExtraction
    /\ hasClient \in BOOLEAN
    /\ showAI = TRUE
    /\ lastPrediction = InitialPrediction
    /\ sensorReadings \in ReadingLists
    /\ analysis = NoText
    /\ tips = NoText
    /\ loading = FALSE
    /\ requests = <<>>

\* The effect of AIAssistant (757-771) after a render with isOpen and a
\* prediction: fetchData up to its await.
FetchStarts ==
    /\ showAI
    /\ lastPrediction # NoPrediction
    /\ requests = <<>>
    /\ loading' = TRUE
    /\ requests' = <<fetchData(lastPrediction, sensorReadings, hasClient)>>
    /\ UNCHANGED <<isScanning, simulationMode, sensorType, dataBuffer, simSettings,
                   currentPrediction, errorMsg, sensorRef, intervalRef, lastAlphaRef,
                   platform, attempts, gen, effectPending, pushed, lastSource, fv, verdict,
                   extraction,
                   showAI, lastPrediction, sensorReadings, analysis, tips, hasClient>>

NextService ==
    \/ FetchStarts
    \/ \E i \in 1..Len(requests), oa \in ServiceOutcomes, ot \in ServiceOutcomes :
          FetchSettles(i, oa, ot)

SpecService == InitService /\ [][NextService]_vars

\* The two calls of run i settle, in any of the ways generateContent can end.
Settles(i) ==
    /\ i \in 1..Len(requests)
    /\ \E oa \in ServiceOutcomes, ot \in ServiceOutcomes : FetchSettles(i, oa, ot)

\* The service where the calls of a run do not stay pending for ever.
SpecServiceSettling == InitService /\ [][NextService]_vars /\ WF_vars(Settles(1))

(***************************************************************************)
(* The detector with the assistant, on a device whose only sensor is the   *)
(* compass.                                                                *)
(***************************************************************************)
\* How the two calls of a run settle here: the analysis with a text, the
\* tips call by throwing.
AssistantOutcomes == {<<"text", "throws">>}

InitAssistant ==
    /\ Mounted
    /\ AssistantIdle
    /\ hasClient = TRUE
    /\ platform = [hasMagnetometer |-> FALSE, hasOrientation |-> TRUE,
                   needsPermission |-> FALSE]
    /\ fv = NoFeatures
    /\ verdict = NoVerdict
    /\ extraction = NoExtraction

NextAssistant ==
    \/ ToggleScan
    \/ \E alpha \in Alphas : OrientationEvent(alpha)
    \/ ClassifyEffect
    \/ AnalyzeRequest
    \/ CloseAssistant
    \/ \E i \in 1..Len(requests), o \in AssistantOutcomes : FetchSettles(i, o[1], o[2])

SpecAssistant == InitAssistant /\ [][NextAssistant]_vars

(***************************************************************************)
(* Properties of the sliding window.                                       *)
(***************************************************************************)
\* C1: after any interleaving of pushes, the window dataBuffer holds at most
\* WINDOW_SIZE = 50 samples.
C1_WindowBounded == Len(dataBuffer) <= WINDOW_SIZE

\* More than WINDOW_SIZE samples were pushed and the window is full.
C1_Witness == Len(pushed) > WINDOW_SIZE /\ Len(dataBuffer) = WINDOW_SIZE

\* C2: after pushing a sequence of length L into the initially empty window,
\* the window is exactly the last min(L, 50) samples of it, in their order
\* (51 pushes leave samples 2..51).
C2_WindowIsSuffix ==
    LET L == Len(pushed)
    IN  dataBuffer = SubSeq(pushed, L - Min(L, WINDOW_SIZE) + 1, L)

\* 51 samples pushed, not all alike, and the window is samples 2..51.
C2_Witness ==
    /\ Len(pushed) = WINDOW_SIZE + 1
    /\ pushed[1] # pushed[WINDOW_SIZE + 1]
    /\ dataBuffer = SubSeq(pushed, 2, WINDOW_SIZE + 1)

(***************************************************************************)
(* Properties of the classifier.                                           *)
(***************************************************************************)
\* No feature of f is NaN.
IsFinite(f) == f.mean # NaN /\ f.std # NaN /\ f.max # NaN /\ f.fftMean # NaN /\ f.fftMax # NaN

\* The table of the rules, in its order; confidences in thousandths.
ClassificationTable(f) ==
    << [matches |-> f.fftMax > Fix(150) /\ f.std > Fix(20),
        metalType |-> "Iron", confidence |-> 940],
       [matches |-> f.fftMax > Fix(150),
        metalType |-> "Stainless Steel", confidence |-> 890],
       [matches |-> f.std > Fix(10),
        metalType |-> "Iron", confidence |-> 880],
       [matches |-> f.fftMax > Fix(80) /\ f.mean > Fix(60),
        metalType |-> "Aluminum", confidence |-> 780],
       [matches |-> TRUE,
        metalType |-> "No Metal",
        confidence |-> Min(990, (Fix(50) * 1000 - 1000 * f.std) \div Fix(50))] >>

FirstMatchingRow(f) ==
    LET rows == ClassificationTable(f)
        first == CHOOSE i \in 1..Len(rows) :
                    rows[i].matches /\ \A j \in 1..(i - 1) : ~rows[j].matches
    IN  rows[first]

\* C3: for finite features the classification is the first matching row of:
\* fftMax > 150 and std > 20 -> Iron 0.94; fftMax > 150 -> Stainless Steel
\* 0.89; std > 10 -> Iron 0.88; fftMax > 80 and mean > 60 -> Aluminum 0.78;
\* otherwise No Metal with confidence min(0.99, 1 - std / 50).
C3_FirstMatchingRow ==
    verdict.done /\ IsFinite(fv) =>
        /\ verdict.metalType = FirstMatchingRow(fv).metalType
        /\ verdict.confidence = FirstMatchingRow(fv).confidence

\* A vector on the thresholds of the first three rows that reaches the fourth.
C3_Witness ==
    /\ verdict.done
    /\ fv.fftMax = Fix(150) /\ fv.std = Fix(10) /\ fv.mean > Fix(60)
    /\ verdict.metalType = "Aluminum"

\* C4: when fftMax > 150 and std > 20 both hold the result is Iron with
\* confidence 0.94, never Stainless Steel.
C4_IronBeforeSteel ==
    verdict.done /\ fv.fftMax > Fix(150) /\ fv.std > Fix(20) =>
        verdict.metalType = "Iron" /\ verdict.confidence = 940

\* A classified vector with fftMax = 200 and std = 25.
C4_Witness ==
    verdict.done /\ fv.fftMax = Fix(200) /\ fv.std = Fix(25) /\ verdict.metalType = "Iron"

\* C11 as stated: a vector with std above about 50 that the fftMax rules do
\* not catch comes out as No Metal with a negative confidence.
C11_NegativeNoMetalForLargeStd ==
    verdict.done /\ Gt(fv.std, Fix(51)) /\ ~Gt(fv.fftMax, Fix(150)) =>
        verdict.metalType = "No Metal" /\ verdict.confidence < 0

\* C11, amended: no result has a negative confidence.  A vector with std
\* above 10 never reaches the else branch (it is Iron or Stainless Steel), so
\* a No Metal result with a numeric std has std <= 10 and a confidence
\* min(0.99, 1 - std / 50) between 0.8 and 0.99.
C11_NoMetalConfidenceFloor ==
    verdict.done =>
        /\ verdict.confidence = NaN \/ verdict.confidence >= 0
        /\ verdict.metalType = "No Metal" /\ fv.std # NaN =>
              /\ fv.std <= Fix(10)
              /\ verdict.confidence >= 800
              /\ verdict.confidence <= 990

\* std = 60 with fftMax <= 150: classified, and as Iron 0.88.
C11_Witness ==
    /\ verdict.done
    /\ fv.std = Fix(60) /\ ~Gt(fv.fftMax, Fix(150))
    /\ verdict.metalType = "Iron" /\ verdict.confidence = 880

\* C12: the classification step is total: for every feature vector it assigns
\* a label, and the label is one of Iron, Stainless Steel, Aluminum, No Metal,
\* never MetalType.UNKNOWN ('Analyzing...').
C12_LabelAlwaysAssigned ==
    /\ ~verdict.done => ENABLED ClassifyStep
    /\ verdict.done =>
          verdict.metalType \in {"Iron", "Stainless Steel", "Aluminum", "No Metal"}

\* A vector of NaN features, classified.
C12_Witness ==
    /\ verdict.done
    /\ fv.mean = NaN /\ fv.std = NaN /\ fv.fftMax = NaN
    /\ verdict.metalType \in MetalType \ {"Analyzing..."}

\* Some feature of f is NaN.
HasNaN(f) == ~IsFinite(f)

\* C13 as stated: a vector in which any feature is NaN matches no rule and is
\* classified as No Metal.
C13_NaNFallsToNoMetal ==
    verdict.done /\ HasNaN(fv) => verdict.metalType = "No Metal"

\* C13, amended: NaN makes the comparisons on that feature false, and only
\* those.  With std and fftMax both NaN the result is No Metal, with a NaN
\* confidence; with std NaN and fftMax > 150 it is Stainless Steel 0.89;
\* with fftMax NaN and std > 10, or mean NaN and std > 20, it is Iron; with
\* mean NaN, fftMax <= 150 and std <= 10 it is No Metal.
C13_NaNFailsItsComparisonsOnly ==
    verdict.done =>
        /\ fv.std = NaN /\ fv.fftMax = NaN =>
              verdict.metalType = "No Metal" /\ verdict.confidence = NaN
        /\ fv.std = NaN /\ Gt(fv.fftMax, Fix(150)) =>
              verdict.metalType = "Stainless Steel" /\ verdict.confidence = 890
        /\ fv.fftMax = NaN /\ Gt(fv.std, Fix(10)) =>
              verdict.metalType = "Iron" /\ verdict.confidence = 880
        /\ fv.mean = NaN /\ Gt(fv.std, Fix(20)) => verdict.metalType = "Iron"
        /\ fv.mean = NaN /\ fv.fftMax # NaN /\ fv.fftMax <= Fix(150)
             /\ fv.std # NaN /\ fv.std <= Fix(10) =>
              verdict.metalType = "No Metal" /\ verdict.confidence >= 800

\* std NaN with fftMax = 200: classified, and as Stainless Steel.
C13_Witness ==
    /\ verdict.done
    /\ fv.std = NaN /\ fv.fftMax = Fix(200)
    /\ verdict.metalType = "Stainless Steel"

\* std from 5 to 25, in steps of a tenth.
StdSweep == Fix(5)..Fix(25)

\* C23 as stated: with fftMax <= 150 and the other features fixed, raising
\* std from 5 to 25 gives No Metal for std <= 10 and Iron (0.88) for
\* std > 10.
C23_NoMetalUntilStdPassesTen ==
    verdict.done /\ IsFinite(fv) /\ fv.fftMax <= Fix(150) /\ fv.std = Fix(5) =>
        \A s \in StdSweep :
            LET r == Classify([fv EXCEPT !.std = s])
            IN  IF s > Fix(10)
                THEN r.metalType = "Iron" /\ r.confidence = 880
                ELSE r.metalType = "No Metal"

\* C23, amended: with fftMax <= 150 and the other features fixed, raising
\* std from 5 to 25 changes the label exactly when std passes 10, to Iron
\* (0.88); for std <= 10 the label is the one at std = 5: Aluminum (0.78)
\* when fftMax > 80 and mean > 60, No Metal with confidence 1 - std / 50
\* otherwise.
C23_IronOnceStdPassesTen ==
    verdict.done /\ IsFinite(fv) /\ fv.fftMax <= Fix(150) /\ fv.std = Fix(5) =>
        /\ verdict.metalType =
              IF fv.fftMax > Fix(80) /\ fv.mean > Fix(60) THEN "Aluminum" ELSE "No Metal"
        /\ \A s \in StdSweep :
              LET r == Classify([fv EXCEPT !.std = s])
              IN  IF s > Fix(10)
                  THEN r.metalType = "Iron" /\ r.confidence = 880
                  ELSE /\ r.metalType = verdict.metalType
                       /\ r.confidence =
                             IF r.metalType = "Aluminum" THEN 780 ELSE 1000 - 2 * s

\* A vector with std = 5 classified as No Metal, whose label is still
\* No Metal at std = 10 and Iron at std = 10.1.
C23_Witness ==
    /\ verdict.done /\ IsFinite(fv)
    /\ fv.std = Fix(5) /\ fv.fftMax <= Fix(150)
    /\ verdict.metalType = "No Metal"
    /\ Classify([fv EXCEPT !.std = Fix(10)]).metalType = "No Metal"
    /\ Classify([fv EXCEPT !.std = Fix(10) + 1]).metalType = "Iron"

(***************************************************************************)
(* Properties of extraction.                                               *)
(***************************************************************************)
\* C21 as stated: for every window of exactly 50 samples that all have the
\* same magnitude c, extraction gives std = 0, max = c, fftMean = 0 and
\* fftMax = 0 (so a first bin of 0), and the classifier yields No Metal with
\* confidence 0.99.
C21_ConstantWindowHasZeroSpread ==
    extraction.called /\ Len(dataBuffer) = WINDOW_SIZE /\ Alike(dataBuffer) =>
        /\ extraction.doubles.std = 0
        /\ extraction.doubles.max = extraction.doubles.value.significand
        /\ extraction.doubles.fftFirst = 0
        /\ fv.fftMean = 0 /\ fv.fftMax = 0
        /\ verdict.metalType = "No Metal" /\ verdict.confidence = 990

\* C21, amended: for every window of exactly 50 samples that all have the
\* same magnitude c, max = c, and std, fftMean and fftMax are 0 to a tenth,
\* so that the classifier yields No Metal with confidence 0.99.  They are
\* exactly 0 when the running sum of line 79 is exact, as it is when the
\* significand of c ends in six zero bits (every whole c).  For other c the
\* mean is not c: std = |c - mean| and the first bin of the spectrum, which
\* fftMax is not below, is 50 times that, with std at most 33 units in the
\* last place of c.
C21_ConstantWindowIsNoMetal ==
    extraction.called /\ Len(dataBuffer) = WINDOW_SIZE /\ Alike(dataBuffer) =>
        LET d == extraction.doubles
        IN  /\ fv.max = dataBuffer[1].total
            /\ fv.std = 0 /\ fv.fftMean = 0 /\ fv.fftMax = 0
            /\ verdict.metalType = "No Metal" /\ verdict.confidence = 990
            /\ d.carried
            /\ d.max = d.value.significand
            /\ d.std = Abs(BigDiff(d.value.significand, d.mean))
            /\ d.std <= 33
            /\ d.fftFirst = WINDOW_SIZE * d.std
            /\ d.value.significand[3] % 64 = 0 => d.std = 0

\* The window of 50 samples of 45.3, extracted: the mean is one unit in the
\* last place below 45.3, and so is the std above 0; the label is No Metal.
C21_Witness ==
    /\ extraction.called
    /\ Len(dataBuffer) = WINDOW_SIZE /\ Alike(dataBuffer)
    /\ dataBuffer[1].total = 453
    /\ extraction.doubles.std = 1
    /\ verdict.metalType = "No Metal" /\ verdict.confidence = 990

\* The window holds 50 samples alternating between 40 and 140, either first.
Alternating(buffer) ==
    /\ Len(buffer) = WINDOW_SIZE
    /\ \E a \in {Fix(40), Fix(140)} :
          \A i \in 1..WINDOW_SIZE :
              buffer[i].total = IF i % 2 = 1 THEN a ELSE Fix(180) - a

\* C22 as stated: a window of 50 samples alternating between 40 and 140 has
\* std > 20 and fftMax > 150 over the bins k = 0..24 of the mean-centred
\* series, and is classified as Iron with confidence 0.94.
C22_AlternatingIsIronByFftMax ==
    extraction.called /\ Alternating(dataBuffer) =>
        /\ fv.std > Fix(20)
        /\ fv.fftMax > Fix(150)
        /\ verdict.metalType = "Iron" /\ verdict.confidence = 940

\* C22, amended: the window alternating between 40 and 140 has mean 90 and
\* std 50, but its only periodic component lies in bin 25, which the loop
\* over k = 0..24 leaves out: fftMean and fftMax are 0 (below 0.1), the rule
\* fftMax > 150 does not match, and the window is Iron with confidence 0.88
\* by the rule std > 10.
C22_AlternatingIsIronByStd ==
    Alternating(dataBuffer) =>
        /\ extraction.called =>
              /\ fv.mean = Fix(90) /\ fv.std = Fix(50) /\ fv.max = Fix(140)
              /\ fv.fftMean < Fix(1) /\ fv.fftMax < Fix(1)
              /\ verdict.metalType = "Iron" /\ verdict.confidence = 880
        /\ ~effectPending =>
              currentPrediction.metalType = "Iron" /\ currentPrediction.confidence = 880

\* The alternating window, extracted and classified by the effect.
C22_Witness ==
    /\ Alternating(dataBuffer)
    /\ dataBuffer[1].total = Fix(40)
    /\ extraction.called /\ ~effectPending
    /\ fv.std = Fix(50)
    /\ currentPrediction.metalType = "Iron"

Replayed(buffer) == [i \in 1..Len(buffer) |-> Reading(buffer[i].total, "")]

C14_ServiceNeverRejects ==
    \A i \in 1..Len(requests) :
        LET r == requests[i]
        IN  /\ r.state # "failed"
            /\ r.state = "done" /\ analysis.req = i =>
                  /\ ~loading
                  /\ analysis.text # "" /\ tips.text # ""
                  /\ r.outcome[1] = "none" =>
                        analysis.text = "Gemini API key not configured. Please check your settings."
                  /\ r.outcome[1] = "throws" =>
                        analysis.text = "Unable to connect to AI analysis service at this time."
                  /\ r.outcome[1] = "empty" =>
                        analysis.text = "Analysis complete. No text returned."
                  /\ r.outcome[2] = "none" => tips.text = "Configure API Key for safety tips."
                  /\ r.outcome[2] = "throws" => tips.text = "Error fetching safety tips."
                  /\ r.outcome[2] = "empty" => tips.text = "No tips available."

\* A run with a client whose analysis call threw and whose tips call
\* returned no text has ended, fallback strings in place.
C14_Witness ==
    /\ hasClient
    /\ requests # <<>>
    /\ requests[1].state = "done"
    /\ requests[1].outcome = <<"throws", "empty">>
    /\ analysis.text # ResponseText

\* C17: the readings sent to the service are the last min(20, L) of the L
\* readings passed in, in their order; never more than 20.
C17_SampleIsLastTwenty ==
    \A i \in 1..Len(requests) :
        requests[i].prompt.sent =>
            LET readings == requests[i].readings
                sample == requests[i].prompt.readingSample
                L == Len(readings)
                n == Min(20, L)
            IN  /\ Len(sample) = n
                /\ Len(sample) <= 20
                /\ \A k \in 1..n : sample[k] = readings[L - n + k]

\* 22 readings passed in: the sample starts at the third.
C17_Witness ==
    /\ requests # <<>>
    /\ requests[1].prompt.sent
    /\ Len(requests[1].readings) = 22
    /\ requests[1].prompt.readingSample[1] = requests[1].readings[3]

\* A run of fetchData is waiting for the service.
Outstanding == \E i \in 1..Len(requests) : requests[i].state = "pending"

\* The deviceorientation listeners now registered.
Listeners == Cardinality({a \in 1..Len(attempts) : attempts[a].stage = "compass"})

\* Readings the bounds of the model still admit.
PushRoom == (IF Len(attempts) <= 1 THEN MaxPushes ELSE MaxPushesRestarted) - Len(pushed)

\* C15: while a narrative request is outstanding, sample delivery and the
\* extract + classify cycle stay enabled: a registered source can push, and
\* a scheduled run of the effect can take place (stated for the windows
\* still filling; C15_Witness has a cycle over a full one); the response is
\* a separate, later event.
C15_IngestionNotBlocked ==
    Outstanding =>
        /\ effectPending /\ Len(dataBuffer) < WINDOW_SIZE => ENABLED ClassifyEffect
        /\ ~effectPending /\ Listeners > 0 /\ PushRoom >= Listeners =>
              ENABLED OrientationEvent(348)

\* A request is still outstanding after samples were pushed and a cycle
\* replaced the prediction it was made with.
C15_Witness ==
    \E i \in 1..Len(requests) :
        /\ requests[i].state = "pending"
        /\ ~effectPending
        /\ Len(dataBuffer) > Len(requests[i].readings)
        /\ currentPrediction # requests[i].prediction

\* C16: the narrative request is made against a snapshot: the prediction and
\* readings stored by handleAnalyzeRequest, and those of a request made, are
\* changed by no push and no classification cycle, only by a later AI ANALYZE.
C16_SnapshotFrame ==
    [][/\ lastPrediction' # lastPrediction \/ sensorReadings' # sensorReadings =>
             ~showAI /\ showAI'
       /\ \A i \in 1..Len(requests) :
             /\ requests'[i].prediction = requests[i].prediction
             /\ requests'[i].readings = requests[i].readings
             /\ requests'[i].prompt = requests[i].prompt]_vars

\* The snapshot is older than the window and the prediction now held.
C16_Witness ==
    /\ lastPrediction # NoPrediction
    /\ ~effectPending
    /\ Len(dataBuffer) > Len(sensorReadings)
    /\ currentPrediction # lastPrediction
    /\ sensorReadings = requests[Len(requests)].readings

\* C27: when the assistant is not loading, the analysis and the tips it
\* holds were produced for the prediction it displays: the response of an
\* earlier request never replaces or stands in for the result of a later one.
C27_ResultIsOfDisplayedPrediction ==
    ~loading /\ analysis.req # 0 =>
        /\ tips.req = analysis.req
        /\ requests[analysis.req].prediction = lastPrediction

\* C28: every prediction handed to onAnalyze, and from there to the
\* service, was produced by a classification run over a full window of 50
\* samples and is the classification of the readings passed with it; the
\* initial prediction (No Metal, confidence 0.0) is never sent.
C28_SentPredictionIsOfFullWindow ==
    \A i \in 1..Len(requests) :
        LET readings == requests[i].readings
            N == Len(readings)
        IN  /\ requests[i].prediction # InitialPrediction
            /\ N = WINDOW_SIZE
            /\ requests[i].prediction =
                  Prediction(FeaturesOf(readings, N, SumTo(readings, N) \div N))

\* C31: every run of fetchData started by a render of the assistant open
\* over a prediction leaves the loading state: once the calls of the run are
\* pending, loading becomes false, however the two calls end, given that
\* they settle.
C31_AnalysisLeavesLoading == Outstanding ~> ~loading

\* A run whose two calls both failed has settled and loading is false.
C31_Witness ==
    /\ Len(requests) = 1
    /\ requests[1].state = "done"
    /\ requests[1].outcome = <<"throws", "throws">>
    /\ tips.text = "Error fetching safety tips."
    /\ ~loading

(***************************************************************************)
(* Properties of the acquisition sources.                                  *)
(***************************************************************************)
\* The attempts that hold a source delivering samples: a started sensor, a
\* registered deviceorientation listener, a running interval.
Registered == {a \in 1..Len(attempts) : attempts[a].stage \in {"mag", "compass", "sim"}}

\* C5: at most one acquisition source (magnetometer, orientation listener or
\* simulation interval) is registered at any instant.
C5_AtMostOneSource == Cardinality(Registered) <= 1

\* A step in which stopScan ran: STOP pressed while scanning, or the mode button.
StopScanStep == (isScanning /\ ToggleScan) \/ ModeToggle

\* C6: after stopScan has run no acquisition resource is left registered (the
\* deviceorientation listener is removed too) and no further sample is pushed
\* until the next start.
C6_StopReleasesEverySource == [][StopScanStep => Registered' = {}]_vars

\* C7: the window is cleared whenever the source changes (mode switch, restart
\* or fallback), so no classified window mixes samples of two sources.
C7_ClassifiedWindowOneSource ==
    Len(dataBuffer) = WINDOW_SIZE /\ ~effectPending =>
        \A i, j \in 1..Len(dataBuffer) : dataBuffer[i].src = dataBuffer[j].src

\* C18: stopScan is idempotent: from any state, running it twice in a row
\* (the second time from the same render or from the next) leaves the same
\* scanning flag, sensor handle, interval handle and registered listeners as
\* running it once.
C18_StopScanIdempotent ==
    LET once == stopScan(Ctl, gen)
    IN  \A g \in {gen, gen + 1} : stopScan(once, g) = once

\* Scanning with a running interval, which the first stopScan clears.
C18_Witness ==
    /\ isScanning
    /\ intervalRef # 0
    /\ attempts[intervalRef].stage = "sim"
    /\ stopScan(Ctl, gen).attempts[intervalRef].stage = "closed"
    /\ stopScan(stopScan(Ctl, gen), gen) # Ctl

\* C19: after START with simulationMode off the tiers are tried in the order
\* magnetometer, compass, simulation: an attempt is at the compass only
\* after it found the magnetometer absent, denied or failing, and at the
\* simulation only after it found both so.
C19_TiersInOrder ==
    \A a \in 1..Len(attempts) :
        ~attempts[a].simRequested =>
            /\ attempts[a].stage \in {"magQuery", "mag"} => attempts[a].found = {}
            /\ attempts[a].stage \in {"compassPerm", "compass"} =>
                  attempts[a].found = {"Magnetometer"}
            /\ attempts[a].stage \in {"simTimer", "sim"} =>
                  attempts[a].found = {"Magnetometer", "Compass"}

\* A device with a magnetometer, started with simulationMode off, ends at
\* the simulation: its sensor failed and the compass was not there.
C19_Witness ==
    \E a \in 1..Len(attempts) :
        /\ platform.hasMagnetometer
        /\ ~attempts[a].simRequested
        /\ attempts[a].stage = "sim"
        /\ attempts[a].found = {"Magnetometer", "Compass"}

\* C20: whenever a start request finds that neither the magnetometer nor the
\* compass can be started (absent, denied, or an exception), the request
\* ends with the simulation source running (or set to run, by the timer of
\* the last resort).
C20_FallbackEndsInSimulation ==
    [][\A a \in 1..Len(attempts') :
          /\ attempts'[a].found = {"Magnetometer", "Compass"}
          /\ a > Len(attempts) \/ attempts[a].found # attempts'[a].found
          => attempts'[a].stage \in {"simTimer", "sim"}]_vars

\* after is the control state but for the scanning flag and the acquisition
\* handles (the sensor, the interval, the listeners).
OnlyScanningAndHandles(after) ==
    [after EXCEPT !.isScanning = isScanning, !.sensorRef = sensorRef,
                  !.intervalRef = intervalRef, !.attempts = attempts] = Ctl

\* C32: stopScan changes only the scanning flag and the acquisition handles.
\* Neither stopScan writes anything else of the control state; a step of
\* STOP leaves the window, the current prediction, simulationMode and the
\* simulation settings as they were; a step of the mode button, which runs
\* stopScan and then setSimulationMode, leaves the window, the prediction
\* and the settings as they were and flips simulationMode by its own setter.
C32_StopScanFrame ==
    [][/\ OnlyScanningAndHandles(stopScan(Ctl, gen))
       /\ OnlyScanningAndHandles(stopScanMagnetometerOnly(Ctl))
       /\ (isScanning /\ ToggleScan) =>
              UNCHANGED <<dataBuffer, currentPrediction, simulationMode, simSettings>>
       /\ ModeToggle =>
              /\ UNCHANGED <<dataBuffer, currentPrediction, simSettings>>
              /\ simulationMode' = ~simulationMode]_vars

\* A simulation scan with the base slider moved was stopped after a full
\* window was classified: the window, the prediction, the mode and the
\* settings are still there.
C32_Witness ==
    /\ ~isScanning
    /\ intervalRef = 0
    /\ Registered = {}
    /\ \E a \in 1..Len(attempts) : attempts[a].simRequested /\ attempts[a].stage = "closed"
    /\ simulationMode
    /\ simSettings.base # DEFAULT_SIM_BASE
    /\ Len(dataBuffer) = WINDOW_SIZE
    /\ ~effectPending
    /\ currentPrediction # InitialPrediction
    /\ currentPrediction.features.mean = Fix(simSettings.base)

\* C26: whenever the status is SCANNING (isScanning is true) at least one
\* acquisition source is registered and able to deliver samples, also after
\* a magnetometer error followed by a compass fallback whose permission is
\* denied.
C26_ScanningHasSource == isScanning => Registered # {}

\* C29: the simulation interval runs only while simulationMode is true: no
\* sequence of START, STOP, mode button and timer events, the delayed start
\* of the last resort included, leaves an interval running while
\* simulationMode is false.
C29_IntervalOnlyInSimulationMode ==
    (\E a \in 1..Len(attempts) : attempts[a].stage = "sim") => simulationMode

\* The kind of source an attempt holds.
SourceKind(a) ==
    CASE attempts[a].stage = "mag" -> "Magnetometer"
      [] attempts[a].stage = "compass" -> "Compass"
      [] attempts[a].stage = "sim" -> "Simulation"

\* C30: while scanning, the displayed sensorType ('Magnetometer', 'Compass'
\* or 'Simulation') names the kind of every source that is delivering
\* samples into the window.
C30_SensorTypeNamesEverySource ==
    isScanning => \A a \in Registered : SourceKind(a) = sensorType

(***************************************************************************)
(* Properties of the classification effect.                                *)
(***************************************************************************)
\* C8: while the window holds fewer than 50 samples no classification is run:
\* currentPrediction keeps its prior value, which is the initial one
\* (No Metal, confidence 0.0, all-zero features).
C8_NoClassificationBelowWindow ==
    Len(dataBuffer) < WINDOW_SIZE => currentPrediction = InitialPrediction

\* 49 samples pushed and the effect of the last push has run.
C8_Witness ==
    /\ Len(dataBuffer) = WINDOW_SIZE - 1
    /\ ~effectPending
    /\ currentPrediction = InitialPrediction

\* C9: once the window is full every push triggers a classification cycle and
\* only its result is retained: whenever no cycle is pending,
\* currentPrediction is the prediction computed from the current window.
C9_PredictionIsOfCurrentWindow ==
    Len(dataBuffer) = WINDOW_SIZE /\ ~effectPending =>
        currentPrediction = Prediction(extractFeatures(dataBuffer))

\* The window moved on after its first classification and the result with it.
C9_Witness ==
    /\ Len(pushed) > WINDOW_SIZE
    /\ ~effectPending
    /\ currentPrediction.features.mean # extractFeatures(SubSeq(pushed, 1, WINDOW_SIZE)).mean

\* C10: every prediction held in currentPrediction, the initial one included,
\* has a confidence in [0, 1] (thousandths here).
C10_ConfidenceInUnitInterval ==
    currentPrediction.confidence >= 0 /\ currentPrediction.confidence <= 1000

\* A No Metal result of the effect, whose confidence is the computed one.
C10_Witness ==
    /\ currentPrediction # InitialPrediction
    /\ currentPrediction.metalType = "No Metal"
    /\ currentPrediction.confidence < 990

=============================================================================
